---- MODULE Spec2Model ----
(***************************************************************************)
(* A model of gerritlab's merge-request layer                              *)
(* (src/gerritlab/merge_request.py): the MergeRequest object and its       *)
(* remote operations, the paginated listing of open merge requests and the *)
(* reconstruction of the dependency chain.                                 *)
(*                                                                         *)
(* Python values are represented as follows.  Branch names, titles, iids,  *)
(* urls and shas are TLA+ strings, and Python's None is the string None.   *)
(* A description is a sequence of characters, so that str.strip() can be   *)
(* computed; the description None is the one-element sequence NoneDesc,    *)
(* which is no sequence of characters.                                     *)
(***************************************************************************)
EXTENDS Integers, Sequences, FiniteSets, TLC

VARIABLES
    mrs,        \* get_merge_request_chain: the list `mrs` passed in
    chain,      \* get_merge_request_chain: what the call returned
    called,     \* get_merge_request_chain: whether the call was made
    pages,      \* the remote's pages of open merge requests
    page,       \* _get_open_merge_requests: the local `page`
    results,    \* _get_open_merge_requests: the local `results`
    requested,  \* the page numbers requested so far, in order
    listing,    \* _get_open_merge_requests: "running", "returned" or "exit"
    mr,         \* one MergeRequest object
    commit,     \* the commit a running wait_until_stable was given
    remote,     \* what the remote stores for that merge request
    pc,         \* "idle", or the loop the object's caller is in
    last,       \* the last call: its name, requests and outcome
    links,      \* the merge of a chain: the chain's MergeRequest objects
    remotes,    \* the merge of a chain: what the remote stores for each link
    cur,        \* the merge of a chain: the link being merged
    phase,      \* the merge of a chain: the call the current link is in
    inflight,   \* the merge of a chain: the requests awaiting their response
    hist        \* the merge of a chain: the shas polled and the merges accepted

chainVars == <<mrs, chain, called>>
pageVars == <<pages, page, results, requested, listing>>
mrVars == <<mr, commit, remote, pc, last>>
orchVars == <<links, remotes, cur, phase, inflight, hist>>
vars == <<chainVars, pageVars, mrVars, orchVars>>

\* ---------------------------------------------------------------- bounds

\* Number of stack branches feat-1, feat-2, ... besides the base branch.
NumBranches == 3

\* Longest list of merge requests handed to get_merge_request_chain.
MaxMRs == 3

\* Longest description, in characters.
MaxDescLen == 2

\* Number of pages of open merge requests the remote may hold, and the most
\* merge requests on one of them.
MaxPages == 4

MaxPageLen == 1

\* Length of the chain that is merged.
NumLinks == 2

\* ---------------------------------------------------------------- values

None == "None"

NoneDesc == <<"None">>

FeatNames == <<"feat-1", "feat-2", "feat-3", "feat-4", "feat-5", "feat-6">>

Branches == {FeatNames[i] : i \in 1..NumBranches}

global_target_branch == "master"

\* The branches a stack may be based on: the default, and one a .gitreview sets.
BaseBranches == {global_target_branch, "develop"}

\* The characters of a description: one that str.strip() removes, one it keeps.
Chars == {" ", "a"}

Whitespace == {" "}

RECURSIVE StringsUpTo(_)
StringsUpTo(n) ==
    IF n = 0 THEN {<<>>}
    ELSE LET shorter == StringsUpTo(n - 1)
         IN  shorter \cup {Append(s, c) : s \in shorter, c \in Chars}

Descriptions == StringsUpTo(MaxDescLen)

\* str.lstrip(), str.rstrip() and str.strip() of a character sequence.
RECURSIVE lstrip(_)
lstrip(s) ==
    IF s # <<>> /\ Head(s) \in Whitespace THEN lstrip(Tail(s)) ELSE s

RECURSIVE rstrip(_)
rstrip(s) ==
    IF s # <<>> /\ s[Len(s)] \in Whitespace
    THEN rstrip(SubSeq(s, 1, Len(s) - 1))
    ELSE s

strip(s) == rstrip(lstrip(s))

\* ------------------------------------------- get_merge_request_chain

\* The merge requests of a list are objects: the model names each by its index in
\* the list, so two merge requests with equal fields stay two.

MaxOf(S) == CHOOSE x \in S : \A y \in S : y <= x

\* source_branches = set([mr.source_branch for mr in mrs])
source_branches(ms) == {ms[i].source_branch : i \in DOMAIN ms}

\* roots: the merge requests whose target is no member's source, in list order.
RECURSIVE roots_from(_, _)
roots_from(ms, i) ==
    IF i > Len(ms) THEN <<>>
    ELSE IF ms[i].target_branch \notin source_branches(ms)
         THEN <<i>> \o roots_from(ms, i + 1)
         ELSE roots_from(ms, i + 1)

\* A chain builder that collects the roots last to first.
RECURSIVE roots_backwards(_, _)
roots_backwards(ms, i) ==
    IF i = 0 THEN <<>>
    ELSE IF ms[i].target_branch \notin source_branches(ms)
         THEN <<i>> \o roots_backwards(ms, i - 1)
         ELSE roots_backwards(ms, i - 1)

roots_last_first(ms) == roots_backwards(ms, Len(ms))

\* A chain builder that starts a chain at every merge request of the list.
roots_all(ms) == [i \in 1..Len(ms) |-> i]

roots(ms) == roots_from(ms, 1)

\* mrs_dict = {mr.target_branch: mr for mr in mrs}: a later entry of the list
\* replaces an earlier one with the same key.
mrs_dict(ms) ==
    [t \in {ms[i].target_branch : i \in DOMAIN ms} |->
        MaxOf({i \in DOMAIN ms : ms[i].target_branch = t})]

\* What a call of the chain builder gives: the list returned (of indices into
\* `mrs`), or the exception raised.
Returned(c) == [out |-> "ok", ret |-> c]

RecursionError == [out |-> "RecursionError", ret |-> <<>>]

\* get_merge_request_chain_inner(mrs, root).  The recursion is one call deep per
\* merge request visited; a walk that visits more merge requests than the list
\* holds has visited one twice and goes on for ever, which Python ends with a
\* RecursionError: `depth` counts the calls left before that is certain.
RECURSIVE get_merge_request_chain_inner(_, _, _, _)
get_merge_request_chain_inner(ms, dict, root, depth) ==
    IF depth = 0 THEN RecursionError
    ELSE IF ms[root].source_branch \notin DOMAIN dict
    THEN Returned(<<root>>)
    ELSE LET next_mr == dict[ms[root].source_branch]
             rest == get_merge_request_chain_inner(ms, dict, next_mr, depth - 1)
         IN  IF rest.out # "ok" THEN rest ELSE Returned(<<root>> \o rest.ret)

\* The loop `for root in roots: mr_chain.extend(...)`.
RECURSIVE extend_chains(_, _, _)
extend_chains(ms, dict, rs) ==
    IF rs = <<>> THEN Returned(<<>>)
    ELSE LET first == get_merge_request_chain_inner(ms, dict, Head(rs), Len(ms) + 1)
             rest == extend_chains(ms, dict, Tail(rs))
         IN  IF first.out # "ok" THEN first
             ELSE IF rest.out # "ok" THEN rest
             ELSE Returned(first.ret \o rest.ret)

get_merge_request_chain(ms) ==
    IF Len(ms) = 0 THEN Returned(<<>>)
    ELSE extend_chains(ms, mrs_dict(ms), roots(ms))

\* The lists the function is called with: any list of up to MaxMRs merge
\* requests, each with a stack branch as source and any branch as target.
ChainMRs ==
    [source_branch : Branches, target_branch : Branches \cup BaseBranches]

RECURSIVE ListsUpTo(_, _)
ListsUpTo(S, n) ==
    IF n = 0 THEN {<<>>}
    ELSE LET shorter == ListsUpTo(S, n - 1)
         IN  shorter \cup {Append(l, x) : l \in shorter, x \in S}

NotCalled == [out |-> "not called", ret |-> <<>>]

ChainInit ==
    /\ mrs \in ListsUpTo(ChainMRs, MaxMRs)
    /\ chain = NotCalled
    /\ called = FALSE

GetMergeRequestChain ==
    /\ ~called
    /\ called' = TRUE
    /\ chain' = get_merge_request_chain(mrs)
    /\ UNCHANGED <<mrs, pageVars, mrVars, orchVars>>

\* ------------------------------------------------- _get_open_merge_requests

per_page == 50

\* The merge requests on a page, and the bodies a page may have.
PageItems == {"x", "y"}

PageBodies == ListsUpTo(PageItems, MaxPageLen)

\* The body of page p of the remote's listing: the remote holds finitely many
\* merge requests, so every page from some page on is empty.
PageBody(ps, p) == IF p \in DOMAIN ps THEN ps[p] ELSE <<>>

\* How the request of a page may end: a response with a success status, one with
\* an error status (raise_for_status raises HTTPError), or an exception of the
\* session: InvalidHeader, or another one, which the function does not catch.
PageResponses == {"ok", "HTTPError", "InvalidHeader", "ConnectionError"}

\* A listing that appends the page before it looks whether the page is empty.
get_open_merge_requests_append_first(pg, res, resp, body) ==
    IF resp \in {"HTTPError", "InvalidHeader"}
    THEN [page |-> pg, results |-> res, out |-> "exit"]
    ELSE IF resp # "ok"
    THEN [page |-> pg, results |-> res, out |-> "raised"]
    ELSE IF body = <<>>
    THEN [page |-> pg, results |-> Append(res, body), out |-> "returned"]
    ELSE [page |-> pg + 1, results |-> Append(res, body), out |-> "running"]

\* A listing that stops at a failed request and returns the pages it has.
get_open_merge_requests_partial(pg, res, resp, body) ==
    IF resp # "ok"
    THEN [page |-> pg, results |-> res, out |-> "returned"]
    ELSE IF body = <<>>
    THEN [page |-> pg, results |-> res, out |-> "returned"]
    ELSE [page |-> pg + 1, results |-> Append(res, body), out |-> "running"]

\* One turn of `while True` in _get_open_merge_requests, the request of page
\* `pg` ending with `resp` and, on success, the body `body`: sys.exit(1), the
\* exception passed on, `break` and the return of the results, or the next turn.
get_open_merge_requests_turn(pg, res, resp, body) ==
    IF resp \in {"HTTPError", "InvalidHeader"}
    THEN [page |-> pg, results |-> res, out |-> "exit"]
    ELSE IF resp # "ok"
    THEN [page |-> pg, results |-> res, out |-> "raised"]
    ELSE IF body = <<>>
    THEN [page |-> pg, results |-> res, out |-> "returned"]
    ELSE [page |-> pg + 1, results |-> Append(res, body), out |-> "running"]

PagesInit ==
    /\ pages \in ListsUpTo(PageBodies, MaxPages)
    /\ page = 1
    /\ results = <<>>
    /\ requested = <<>>
    /\ listing = "running"

GetOpenMergeRequestsTurn(resp) ==
    /\ listing = "running"
    /\ LET r == get_open_merge_requests_turn(page, results, resp,
                                             PageBody(pages, page))
       IN  /\ page' = r.page
           /\ results' = r.results
           /\ listing' = r.out
    /\ requested' = Append(requested, [page |-> page, per_page |-> per_page])
    /\ UNCHANGED <<pages, chainVars, mrVars, orchVars>>

PagesNext == \E resp \in PageResponses : GetOpenMergeRequestsTurn(resp)

\* ------------------------------------------------------------ the remote

\* requests.codes.ok.
codes_ok == 200

\* Response.raise_for_status() raises HTTPError for a 4xx or 5xx status.
raises_for_status(status) == 400 <= status /\ status < 600

\* The fields of a request body (create, update); NoData for a request without.
Data(m) ==
    [source_branch |-> m.source_branch, target_branch |-> m.target_branch,
     title |-> m.title, description |-> m.description]

NoData ==
    [source_branch |-> None, target_branch |-> None, title |-> None,
     description |-> NoneDesc]

\* A request: the operation, the iid formatted into its url, and its body.
Req(op, iid, data) == [op |-> op, iid |-> iid, data |-> data]

\* The remote either holds the merge request (`json`: what a GET of it returns)
\* or does not.  `accepts` is whether it would accept a merge of it now.
NoJson ==
    [source_branch |-> None, target_branch |-> None, title |-> None,
     description |-> NoneDesc, iid |-> None, web_url |-> None, sha |-> None]

NoRemote == [exists |-> FALSE, json |-> NoJson, accepts |-> FALSE]

TheIid == "7"

TheUrl == "https://remote/merge_requests/7"

\* The statuses the remote may answer a request with.  A create succeeds or
\* fails, and is refused when the merge request exists already.  A request
\* addressed to an iid the remote does not hold (None, a deleted merge request)
\* is refused.  A merge is accepted exactly when the remote is ready for it.  Any
\* other request to a merge request it holds succeeds or fails.
Answers(rem, req) ==
    IF req.op = "create" THEN (IF rem.exists THEN {409} ELSE {201, 500})
    ELSE IF ~(rem.exists /\ req.iid = rem.json.iid) THEN {404}
    ELSE IF req.op = "merge" THEN (IF rem.accepts THEN {200} ELSE {405, 500})
    ELSE {200, 500}

\* What the remote holds after answering `req` with `status`.  A form field whose
\* value is None is not sent, so the remote keeps its own; the remote does not
\* let an update change the source branch.
Serve(rem, req, status) ==
    IF raises_for_status(status) THEN rem
    ELSE IF req.op = "create"
    THEN [rem EXCEPT !.exists = TRUE,
                     !.json = [source_branch |-> req.data.source_branch,
                               target_branch |-> req.data.target_branch,
                               title |-> req.data.title,
                               description |-> req.data.description,
                               iid |-> TheIid, web_url |-> TheUrl,
                               sha |-> rem.json.sha]]
    ELSE IF req.op = "update"
    THEN [rem EXCEPT
            !.json.target_branch =
                IF req.data.target_branch # None THEN req.data.target_branch ELSE @,
            !.json.title = IF req.data.title # None THEN req.data.title ELSE @,
            !.json.description =
                IF req.data.description # NoneDesc THEN req.data.description ELSE @]
    ELSE IF req.op = "delete" THEN NoRemote
    ELSE IF req.op = "merge" THEN [rem EXCEPT !.accepts = FALSE]
    ELSE rem

\* r.json() of the response to `req`.
Json(rem, req, status) == Serve(rem, req, status).json

\* ---------------------------------------------------------- MergeRequest

\* The outcome of a call: the object afterwards, the requests the call issued in
\* order (those to the remote, and the push of a branch deletion), and how it
\* ended: "ok" (with `ret`, the value returned), "loop" (the turn of a loop ended
\* and the next begins) or the exception raised.  The methods take the remote
\* `rem` as it is when they are called and the status it answers with.
Res(m, sent, out, ret) == [mr |-> m, sent |-> sent, out |-> out, ret |-> ret]

\* MergeRequest.__init__ without json_data.
NewMR(source_branch, target_branch, title, description) ==
    [source_branch |-> source_branch, target_branch |-> target_branch,
     title |-> title, description |-> description,
     iid |-> None, web_url |-> None, sha |-> None, needs_save |-> FALSE]

\* MergeRequest._set_data(json_data) with json_data present: every attribute of
\* the response replaces the object's.
set_data(m, json) ==
    [m EXCEPT !.source_branch = json.source_branch,
              !.target_branch = json.target_branch,
              !.title = json.title,
              !.description = json.description,
              !.iid = json.iid,
              !.web_url = json.web_url,
              !.sha = json.sha]

\* MergeRequest(remote=remote, json_data=json), as get_merge_request and
\* get_all_merge_requests build it.
HydratedMR(json) == set_data(NewMR(None, None, None, NoneDesc), json)

\* A create that posts its request a second time when the first one failed.
create_retrying(m, rem, status, body) ==
    LET req == Req("create", None, Data(m))
        data == Json(rem, req, status)
    IN  IF body # "json"
        THEN Res(m, <<req, req>>, "JSONDecodeError", None)
        ELSE IF raises_for_status(status)
        THEN Res(m, <<req, req>>, "SystemExit", None)
        ELSE Res([m EXCEPT !.iid = data.iid, !.web_url = data.web_url],
                 <<req>>, "ok", None)

\* create(): `body` is "json" when the body of the response is JSON.  r.json()
\* comes before r.raise_for_status(), and the exception it raises on another
\* body is no HTTPError: it leaves create() as it is.
create(m, rem, status, body) ==
    LET req == Req("create", None, Data(m))
        data == Json(rem, req, status)
    IN  IF body # "json"
        THEN Res(m, <<req>>, "JSONDecodeError", None)
        ELSE IF raises_for_status(status)
        THEN Res(m, <<req>>, "SystemExit", None)
        ELSE Res([m EXCEPT !.iid = data.iid, !.web_url = data.web_url],
                 <<req>>, "ok", None)

\* An update that sends the overrides only, not the fields without one.
update_overrides_only(m, ov, rem, status) ==
    LET m1 == [m EXCEPT
                 !.source_branch =
                     IF ov.source_branch # None THEN ov.source_branch ELSE @,
                 !.target_branch =
                     IF ov.target_branch # None THEN ov.target_branch ELSE @,
                 !.title = IF ov.title # None THEN ov.title ELSE @,
                 !.description =
                     IF ov.description # NoneDesc THEN ov.description ELSE @]
        req == Req("update", m1.iid, Data(ov))
        data == Json(rem, req, status)
    IN  IF raises_for_status(status)
        THEN Res(m1, <<req>>, "HTTPError", None)
        ELSE Res([m1 EXCEPT !.iid = data.iid, !.web_url = data.web_url],
                 <<req>>, "ok", None)

\* update(source_branch, target_branch, title, description): `ov` holds the four
\* arguments, None (NoneDesc) for one that is not given.
update(m, ov, rem, status) ==
    LET m1 == [m EXCEPT
                 !.source_branch =
                     IF ov.source_branch # None THEN ov.source_branch ELSE @,
                 !.target_branch =
                     IF ov.target_branch # None THEN ov.target_branch ELSE @,
                 !.title = IF ov.title # None THEN ov.title ELSE @,
                 !.description =
                     IF ov.description # NoneDesc THEN ov.description ELSE @]
        req == Req("update", m1.iid, Data(m1))
        data == Json(rem, req, status)
    IN  IF raises_for_status(status)
        THEN Res(m1, <<req>>, "HTTPError", None)
        ELSE Res([m1 EXCEPT !.iid = data.iid, !.web_url = data.web_url],
                 <<req>>, "ok", None)

rebase(m, rem, status) ==
    LET req == Req("rebase", m.iid, NoData)
    IN  IF raises_for_status(status)
        THEN Res(m, <<req>>, "HTTPError", None)
        ELSE Res(m, <<req>>, "ok", None)

\* merge, up to the loop: the check of the iid.
merge_enter(m) ==
    IF m.iid = None
    THEN Res(m, <<>>, "ValueError", None)
    ELSE Res(m, <<>>, "loop", None)

\* A merge that gives up on an error status, as raise_for_status() would.
merge_turn_raising(m, rem, status) ==
    LET req == Req("merge", m.iid, NoData)
    IN  IF status = codes_ok
        THEN Res(m, <<req>>, "ok", None)
        ELSE IF status >= 500
        THEN Res(m, <<req>>, "HTTPError", None)
        ELSE Res(m, <<req>>, "loop", None)

\* A merge that issues its request once and returns, whatever the answer.
merge_turn_once(m, rem, status) ==
    Res(m, <<Req("merge", m.iid, NoData)>>, "ok", None)

\* merge, one turn of `while True`: the request, then `break` or sleep and go on.
merge_turn(m, rem, status) ==
    LET req == Req("merge", m.iid, NoData)
    IN  IF status = codes_ok
        THEN Res(m, <<req>>, "ok", None)
        ELSE Res(m, <<req>>, "loop", None)

\* A delete without the check of the iid.
delete_unchecked(m, delete_source_branch, rem, status) ==
    LET req == Req("delete", m.iid, NoData)
        push == Req("push", None,
                    [NoData EXCEPT !.source_branch = m.source_branch])
    IN  IF raises_for_status(status)
        THEN Res(m, <<req>>, "HTTPError", None)
        ELSE IF delete_source_branch
        THEN Res(m, <<req, push>>, "ok", None)
        ELSE Res(m, <<req>>, "ok", None)

\* A delete that pushes the branch deletion whatever the remote answered.
delete_pushing_always(m, delete_source_branch, rem, status) ==
    IF m.iid = None
    THEN Res(m, <<>>, "ValueError", None)
    ELSE LET req == Req("delete", m.iid, NoData)
             push == Req("push", None,
                         [NoData EXCEPT !.source_branch = m.source_branch])
             sent == IF delete_source_branch THEN <<req, push>> ELSE <<req>>
         IN  IF raises_for_status(status)
             THEN Res(m, sent, "HTTPError", None)
             ELSE Res(m, sent, "ok", None)

delete(m, delete_source_branch, rem, status) ==
    IF m.iid = None
    THEN Res(m, <<>>, "ValueError", None)
    ELSE LET req == Req("delete", m.iid, NoData)
             push == Req("push", None,
                         [NoData EXCEPT !.source_branch = m.source_branch])
         IN  IF raises_for_status(status)
             THEN Res(m, <<req>>, "HTTPError", None)
             ELSE IF delete_source_branch
             THEN Res(m, <<req, push>>, "ok", None)
             ELSE Res(m, <<req>>, "ok", None)

get_commits(m, rem, status) ==
    LET req == Req("commits", m.iid, NoData)
    IN  IF raises_for_status(status)
        THEN Res(m, <<req>>, "HTTPError", None)
        ELSE Res(m, <<req>>, "ok", "r.json()")

\* A needs_update that strips the merge request's description too.
needs_update_both_stripped(m, c) ==
    \/ m.source_branch # c.source_branch
    \/ m.target_branch # c.target_branch
    \/ m.title # c.title
    \/ (m.description = NoneDesc \/ strip(m.description) # strip(c.description))

\* needs_update(commit): `c` holds commit.source_branch, commit.target_branch and
\* the title and description utils.get_msg_title_description returned for the
\* commit's message.
needs_update(m, c) ==
    \/ m.source_branch # c.source_branch
    \/ m.target_branch # c.target_branch
    \/ m.title # c.title
    \/ m.description # strip(c.description)

refresh(m, rem, status) ==
    LET req == Req("get", m.iid, NoData)
    IN  IF raises_for_status(status)
        THEN Res(m, <<req>>, "HTTPError", None)
        ELSE Res(set_data(m, Json(rem, req, status)), <<req>>, "ok", None)

\* A wait_until_stable that trusts the sha the object holds already.
wait_until_stable_turn_cached(m, hexsha, rem, status) ==
    IF m.sha = hexsha THEN Res(m, <<>>, "ok", None)
    ELSE LET r == refresh(m, rem, status)
         IN  IF r.out # "ok" THEN r
             ELSE IF r.mr.sha = hexsha THEN r
             ELSE [r EXCEPT !.out = "loop"]

\* wait_until_stable(commit), one turn of `while True`: the refresh, then return
\* or sleep and go on.
wait_until_stable_turn(m, hexsha, rem, status) ==
    LET r == refresh(m, rem, status)
    IN  IF r.out # "ok" THEN r
        ELSE IF r.mr.sha = hexsha THEN r
        ELSE [r EXCEPT !.out = "loop"]

set_target_branch(m, target_branch) ==
    IF m.target_branch # target_branch
    THEN Res([m EXCEPT !.target_branch = target_branch, !.needs_save = TRUE],
             <<>>, "ok", None)
    ELSE Res(m, <<>>, "ok", None)

set_title(m, title) ==
    IF m.title # title
    THEN Res([m EXCEPT !.title = title, !.needs_save = TRUE], <<>>, "ok", None)
    ELSE Res(m, <<>>, "ok", None)

\* A set_desc that compares the descriptions as they are, like the other setters.
set_desc_exact(m, desc) ==
    IF m.description = NoneDesc \/ desc = NoneDesc
    THEN Res(m, <<>>, "AttributeError", None)
    ELSE IF m.description # desc
    THEN Res([m EXCEPT !.description = desc, !.needs_save = TRUE], <<>>, "ok", None)
    ELSE Res(m, <<>>, "ok", None)

\* set_desc(desc): None has no strip(), so a merge request without a description
\* (or the argument None) raises AttributeError.
set_desc(m, desc) ==
    IF m.description = NoneDesc \/ desc = NoneDesc
    THEN Res(m, <<>>, "AttributeError", None)
    ELSE IF strip(m.description) # strip(desc)
    THEN Res([m EXCEPT !.description = desc, !.needs_save = TRUE], <<>>, "ok", None)
    ELSE Res(m, <<>>, "ok", None)

\* A save that clears needs_save whether its update succeeded or not.
save_clearing(m, rem, status) ==
    IF m.needs_save
    THEN LET r == update(m, NoData, rem, status)
         IN  Res([r.mr EXCEPT !.needs_save = FALSE], r.sent, r.out,
                 IF r.out = "ok" THEN "True" ELSE None)
    ELSE Res([m EXCEPT !.needs_save = FALSE], <<>>, "ok", "False")

\* save(): update() without arguments when needs_save is set; an exception of
\* update() leaves save() before `self._needs_save = False`.
save(m, rem, status) ==
    IF m.needs_save
    THEN LET r == update(m, NoData, rem, status)
         IN  IF r.out # "ok" THEN r
             ELSE Res([r.mr EXCEPT !.needs_save = FALSE], r.sent, "ok", "True")
    ELSE Res([m EXCEPT !.needs_save = FALSE], <<>>, "ok", "False")

\* ------------------------------------------------ calls on one MergeRequest

\* The record of a call kept in `last`.
Last(op, r) == [op |-> op, sent |-> r.sent, out |-> r.out, ret |-> r.ret]

NoCall == [op |-> "none", sent |-> <<>>, out |-> "ok", ret |-> None]

\* The remote after a call that issued `sent`: only the first request of a call
\* goes to the remote (a second is the push of a branch deletion).
After(rem, sent, status) ==
    IF sent = <<>> THEN rem ELSE Serve(rem, sent[1], status)

AllStatuses == {200, 201, 404, 405, 409, 500}

\* `status` is a status the remote may answer the call's request with (the status
\* of a call that issued none plays no part: it is fixed).
Answered(rem, r, status) ==
    IF r.sent = <<>> THEN status = codes_ok ELSE status \in Answers(rem, r.sent[1])

\* The call `op` with outcome `r`, its request answered with `status`.  SystemExit
\* ends the process.
Call(op, r, status) ==
    /\ Answered(remote, r, status)
    /\ mr' = r.mr
    /\ remote' = After(remote, r.sent, status)
    /\ last' = Last(op, r)
    /\ UNCHANGED <<chainVars, pageVars, orchVars>>

\* The values the merge request of feat-2 and its commit take.
TheSource == FeatNames[2]

Targets == {global_target_branch, FeatNames[1]}

Titles == {"t1", "t2"}

Shas == {"c1", "c2"}

NoCommit ==
    [source_branch |-> None, target_branch |-> None, title |-> None,
     description |-> NoneDesc, hexsha |-> None]

\* What the remote may hold for the merge request: a description may be null.
RemoteJsons ==
    [source_branch : {TheSource}, target_branch : Targets, title : Titles,
     description : Descriptions \cup {NoneDesc}, iid : {TheIid},
     web_url : {TheUrl}, sha : {"c1"}]

\* A merge request is either built from the remote's listing or built from a
\* commit and not created yet.
ObjectInit ==
    \/ \E json \in RemoteJsons :
        /\ remote = [exists |-> TRUE, json |-> json, accepts |-> FALSE]
        /\ mr = HydratedMR(json)
    \/ \E t \in Targets, ti \in Titles, d \in Descriptions :
        /\ remote = NoRemote
        /\ mr = NewMR(TheSource, t, ti, d)

\* ------------------------------- the content of a merge request (setters, save)

ContentInit ==
    /\ ObjectInit
    /\ pc = "idle"
    /\ commit = NoCommit
    /\ last = NoCall

SetTargetBranch(t) ==
    /\ pc = "idle"
    /\ Call("set_target_branch", set_target_branch(mr, t), codes_ok)
    /\ UNCHANGED <<pc, commit>>

SetTitle(t) ==
    /\ pc = "idle"
    /\ Call("set_title", set_title(mr, t), codes_ok)
    /\ UNCHANGED <<pc, commit>>

SetDesc(d) ==
    /\ pc = "idle"
    /\ Call("set_desc", set_desc(mr, d), codes_ok)
    /\ UNCHANGED <<pc, commit>>

Save(status) ==
    /\ pc = "idle"
    /\ Call("save", save(mr, remote, status), status)
    /\ UNCHANGED <<pc, commit>>

\* The arguments update() is called with.
Overrides ==
    [source_branch : {None}, target_branch : {None, global_target_branch},
     title : {None, "t2"}, description : {NoneDesc, <<>>, <<"a">>}]

Update(ov, status) ==
    /\ pc = "idle"
    /\ Call("update", update(mr, ov, remote, status), status)
    /\ UNCHANGED <<pc, commit>>

Refresh(status) ==
    /\ pc = "idle"
    /\ Call("refresh", refresh(mr, remote, status), status)
    /\ UNCHANGED <<pc, commit>>

ContentNext ==
    \/ \E t \in Targets : SetTargetBranch(t)
    \/ \E t \in Titles : SetTitle(t)
    \/ \E d \in Descriptions : SetDesc(d)
    \/ \E status \in AllStatuses : Save(status)
    \/ \E ov \in Overrides, status \in AllStatuses : Update(ov, status)
    \/ \E status \in AllStatuses : Refresh(status)

\* --------------------------------------------------- update and its overrides

\* The arguments update() is called with, the source branch among them.
UpdateOverrides ==
    [source_branch : {None, FeatNames[3]}, target_branch : {None, FeatNames[1]},
     title : {None, "t2"}, description : {NoneDesc, <<"a">>}]

UpdateNext ==
    \/ \E t \in Titles : SetTitle(t)
    \/ \E ov \in UpdateOverrides, status \in AllStatuses : Update(ov, status)

\* ------------------------------------- the life of a merge request, and its loops

\* The merge request of one commit: built from the listing, or not created yet.
\* Its content is fixed but for the title.
LifeJsons ==
    [source_branch : {TheSource}, target_branch : {global_target_branch},
     title : {"t1"}, description : {<<"a">>}, iid : {TheIid},
     web_url : {TheUrl}, sha : Shas]

LifeInit ==
    /\ \/ \E json \in LifeJsons, acc \in BOOLEAN :
            /\ remote = [exists |-> TRUE, json |-> json, accepts |-> acc]
            /\ mr = HydratedMR(json)
       \/ /\ remote = NoRemote
          /\ mr = NewMR(TheSource, global_target_branch, "t1", <<"a">>)
    /\ pc = "idle"
    /\ commit = NoCommit
    /\ last = NoCall

\* The bodies of a response: JSON, or something else (the error page of a proxy),
\* which only a response with an error status carries.
Bodies == {"json", "text"}

\* create(); the SystemExit it raises ends the process, and so does the exception
\* of r.json(), which nothing catches.
Create(status, body) ==
    /\ pc = "idle"
    /\ body = "text" => raises_for_status(status)
    /\ LET r == create(mr, remote, status, body)
       IN  /\ Call("create", r, status)
           /\ pc' = IF r.out = "ok" THEN "idle" ELSE "exit"
    /\ UNCHANGED commit

Rebase(status) ==
    /\ pc = "idle"
    /\ Call("rebase", rebase(mr, remote, status), status)
    /\ UNCHANGED <<pc, commit>>

GetCommits(status) ==
    /\ pc = "idle"
    /\ Call("get_commits", get_commits(mr, remote, status), status)
    /\ UNCHANGED <<pc, commit>>

Delete(delete_source_branch, status) ==
    /\ pc = "idle"
    /\ Call("delete", delete(mr, delete_source_branch, remote, status), status)
    /\ UNCHANGED <<pc, commit>>

\* merge(): the call, up to its loop.
Merge ==
    /\ pc = "idle"
    /\ LET r == merge_enter(mr)
       IN  /\ Call("merge", r, codes_ok)
           /\ pc' = IF r.out = "loop" THEN "merge" ELSE "idle"
    /\ UNCHANGED commit

\* merge(): one turn of its loop.
MergeTurn(status) ==
    /\ pc = "merge"
    /\ LET r == merge_turn(mr, remote, status)
       IN  /\ Call("merge", r, status)
           /\ pc' = IF r.out = "loop" THEN "merge" ELSE "idle"
    /\ UNCHANGED commit

\* wait_until_stable(commit): the call, up to its loop.
WaitUntilStable(hexsha) ==
    /\ pc = "idle"
    /\ pc' = "wait"
    /\ commit' = [NoCommit EXCEPT !.hexsha = hexsha]
    /\ last' = [op |-> "wait_until_stable", sent |-> <<>>, out |-> "loop",
                ret |-> None]
    /\ UNCHANGED <<mr, remote, chainVars, pageVars, orchVars>>

\* wait_until_stable(commit): one turn of its loop.
WaitTurn(status) ==
    /\ pc = "wait"
    /\ LET r == wait_until_stable_turn(mr, commit.hexsha, remote, status)
       IN  /\ Call("wait_until_stable", r, status)
           /\ pc' = IF r.out = "loop" THEN "wait" ELSE "idle"
    /\ UNCHANGED commit

\* The remote's side: the source branch gets a new tip (a push, or a rebase that
\* completes), and the remote becomes ready, or no longer ready, to merge.
RemoteSha(sha) ==
    /\ remote.exists
    /\ remote.json.sha # sha
    /\ remote' = [remote EXCEPT !.json.sha = sha]
    /\ UNCHANGED <<mr, commit, pc, last, chainVars, pageVars, orchVars>>

RemoteAccepts ==
    /\ remote.exists
    /\ remote' = [remote EXCEPT !.accepts = ~@]
    /\ UNCHANGED <<mr, commit, pc, last, chainVars, pageVars, orchVars>>

MergeTurns == \E status \in AllStatuses : MergeTurn(status)

WaitTurns == \E status \in AllStatuses : WaitTurn(status)

LifeNext ==
    \/ \E status \in AllStatuses, body \in Bodies : Create(status, body)
    \/ \E t \in Titles : SetTitle(t)
    \/ \E status \in AllStatuses : Save(status)
    \/ \E status \in AllStatuses : Update(NoData, status)
    \/ \E status \in AllStatuses : Rebase(status)
    \/ \E status \in AllStatuses : Refresh(status)
    \/ \E status \in AllStatuses : GetCommits(status)
    \/ \E d \in BOOLEAN, status \in AllStatuses : Delete(d, status)
    \/ Merge
    \/ MergeTurns
    \/ \E h \in Shas : WaitUntilStable(h)
    \/ WaitTurns
    \/ \E h \in Shas : RemoteSha(h)
    \/ RemoteAccepts

\* ---------------------------------------------------- the merge of a chain

\* The chain feat-1 -> feat-2 -> ... of NumLinks merge requests, root first, as
\* get_merge_request_chain returns it, is merged link by link: a rebase where
\* the link is behind its target, then wait_until_stable with the link's commit,
\* then merge, then the next link.  An exception of a call ends the run.  A
\* request is in `inflight` from the moment it is issued to the moment its
\* response arrives.

IidNames == <<"1", "2", "3", "4">>

\* The hash of every link's local commit; the remote holds it or a stale one.
TheHexsha == "c2"

LinkJson(i, sha) ==
    [source_branch |-> FeatNames[i],
     target_branch |-> IF i = 1 THEN global_target_branch ELSE FeatNames[i - 1],
     title |-> "t1", description |-> <<"a">>, iid |-> IidNames[i],
     web_url |-> TheUrl, sha |-> sha]

LinkRemotes(i) ==
    {[exists |-> TRUE, json |-> LinkJson(i, sha), accepts |-> acc] :
        sha \in Shas, acc \in BOOLEAN}

OrchInit ==
    /\ remotes \in {r \in [1..NumLinks -> UNION {LinkRemotes(i) : i \in 1..NumLinks}] :
                        \A i \in 1..NumLinks : r[i] \in LinkRemotes(i)}
    /\ links = [i \in 1..NumLinks |-> HydratedMR(remotes[i].json)]
    /\ cur = 1
    /\ phase = "rebase"
    /\ inflight = {}
    /\ hist = [polled |-> [i \in 1..NumLinks |-> None], merged |-> {}]

\* The turn of the call the current link is in, its request answered by `status`.
Turn(ph, m, rem, status) ==
    IF ph = "rebase" THEN rebase(m, rem, status)
    ELSE IF ph = "wait" THEN wait_until_stable_turn(m, TheHexsha, rem, status)
    ELSE merge_turn(m, rem, status)

\* The link is not behind its target: no rebase.
OrchNoRebase ==
    /\ phase = "rebase"
    /\ inflight = {}
    /\ phase' = "wait"
    /\ UNCHANGED <<links, remotes, cur, inflight, hist, chainVars, pageVars, mrVars>>

\* The current call issues its request and blocks.
OrchSend ==
    /\ phase \in {"rebase", "wait", "merge"}
    /\ inflight = {}
    /\ LET r == Turn(phase, links[cur], remotes[cur], codes_ok)
       IN  /\ r.sent # <<>>
           /\ inflight' = {[link |-> cur, req |-> r.sent[1]]}
    /\ UNCHANGED <<links, remotes, cur, phase, hist, chainVars, pageVars, mrVars>>

\* The phase and the link after a turn that ended with `out`: the next call of the
\* link (merge begins with its check of the iid), the next link, or the end.
AfterTurn(ph, i, m, out) ==
    IF out = "loop" THEN [phase |-> ph, cur |-> i]
    ELSE IF out # "ok" THEN [phase |-> "aborted", cur |-> i]
    ELSE IF ph = "rebase" THEN [phase |-> "wait", cur |-> i]
    ELSE IF ph = "wait"
    THEN [phase |-> IF merge_enter(m).out = "loop" THEN "merge" ELSE "aborted",
          cur |-> i]
    ELSE IF i = NumLinks THEN [phase |-> "done", cur |-> i]
    ELSE [phase |-> "rebase", cur |-> i + 1]

\* The response arrives and the call goes on.
OrchReceive(status) ==
    /\ \E x \in inflight :
        /\ status \in Answers(remotes[x.link], x.req)
        /\ LET r == Turn(phase, links[cur], remotes[cur], status)
               nxt == AfterTurn(phase, cur, r.mr, r.out)
           IN  /\ links' = [links EXCEPT ![cur] = r.mr]
               /\ phase' = nxt.phase
               /\ cur' = nxt.cur
        /\ remotes' = [remotes EXCEPT ![x.link] = Serve(@, x.req, status)]
        /\ inflight' = inflight \ {x}
        /\ hist' = [polled |->
                        IF x.req.op = "get" /\ ~raises_for_status(status)
                        THEN [hist.polled EXCEPT
                                ![x.link] = Json(remotes[x.link], x.req, status).sha]
                        ELSE hist.polled,
                    merged |->
                        IF x.req.op = "merge" /\ ~raises_for_status(status)
                        THEN hist.merged \cup {x.link}
                        ELSE hist.merged]
    /\ UNCHANGED <<chainVars, pageVars, mrVars>>

\* The remote's side, for the links not merged yet.
OrchRemoteSha(i, sha) ==
    /\ phase \notin {"done", "aborted"}
    /\ i >= cur
    /\ remotes[i].json.sha # sha
    /\ remotes' = [remotes EXCEPT ![i].json.sha = sha]
    /\ UNCHANGED <<links, cur, phase, inflight, hist, chainVars, pageVars, mrVars>>

OrchRemoteAccepts(i) ==
    /\ phase \notin {"done", "aborted"}
    /\ i >= cur
    /\ remotes' = [remotes EXCEPT ![i].accepts = ~@]
    /\ UNCHANGED <<links, cur, phase, inflight, hist, chainVars, pageVars, mrVars>>

OrchNext ==
    \/ OrchNoRebase
    \/ OrchSend
    \/ \E status \in AllStatuses : OrchReceive(status)
    \/ \E i \in 1..NumLinks, sha \in Shas : OrchRemoteSha(i, sha)
    \/ \E i \in 1..NumLinks : OrchRemoteAccepts(i)

\* ------------------------------------------------------------ needs_update

\* The commits needs_update is called with.
Commits ==
    [source_branch : {TheSource, FeatNames[3]}, target_branch : Targets,
     title : Titles, description : Descriptions, hexsha : {"c1"}]

NeedsUpdateInit ==
    /\ ObjectInit
    /\ commit \in Commits
    /\ pc = "idle"
    /\ last = NoCall

NeedsUpdate ==
    /\ pc = "idle"
    /\ last.op = "none"
    /\ last' = [op |-> "needs_update", sent |-> <<>>, out |-> "ok",
                ret |-> IF needs_update(mr, commit) THEN "True" ELSE "False"]
    /\ UNCHANGED <<mr, commit, remote, pc, chainVars, pageVars, orchVars>>

\* ------------------------------------- bringing a merge request up to its commit

\* An existing merge request, as built from the remote's listing and not changed
\* since, and the commit of its source branch: needs_update(commit), then the
\* three setters with the commit's target branch, title and description, then
\* save.  `pc` is the call that comes next; an exception ends the sequence.
ReconcileInit ==
    /\ \E json \in RemoteJsons :
          /\ remote = [exists |-> TRUE, json |-> json, accepts |-> FALSE]
          /\ mr = HydratedMR(json)
    /\ commit \in {c \in Commits : c.source_branch = TheSource}
    /\ pc = "needs_update"
    /\ last = NoCall

\* The call after one that ended with `out`.
Then(out, next) == IF out = "ok" THEN next ELSE "raised"

ReconcileNeedsUpdate ==
    /\ pc = "needs_update"
    /\ pc' = "set_target_branch"
    /\ last' = [op |-> "needs_update", sent |-> <<>>, out |-> "ok",
                ret |-> IF needs_update(mr, commit) THEN "True" ELSE "False"]
    /\ UNCHANGED <<mr, commit, remote, chainVars, pageVars, orchVars>>

ReconcileSetTargetBranch ==
    /\ pc = "set_target_branch"
    /\ LET r == set_target_branch(mr, commit.target_branch)
       IN  /\ Call("set_target_branch", r, codes_ok)
           /\ pc' = Then(r.out, "set_title")
    /\ UNCHANGED commit

ReconcileSetTitle ==
    /\ pc = "set_title"
    /\ LET r == set_title(mr, commit.title)
       IN  /\ Call("set_title", r, codes_ok)
           /\ pc' = Then(r.out, "set_desc")
    /\ UNCHANGED commit

ReconcileSetDesc ==
    /\ pc = "set_desc"
    /\ LET r == set_desc(mr, commit.description)
       IN  /\ Call("set_desc", r, codes_ok)
           /\ pc' = Then(r.out, "save")
    /\ UNCHANGED commit

ReconcileSave(status) ==
    /\ pc = "save"
    /\ LET r == save(mr, remote, status)
       IN  /\ Call("save", r, status)
           /\ pc' = Then(r.out, "done")
    /\ UNCHANGED commit

ReconcileNext ==
    \/ ReconcileNeedsUpdate
    \/ ReconcileSetTargetBranch
    \/ ReconcileSetTitle
    \/ ReconcileSetDesc
    \/ \E status \in AllStatuses : ReconcileSave(status)

\* ----------------------------------------------------- the specifications

ChainIdle == mrs = <<>> /\ chain = NotCalled /\ called = FALSE

PagesIdle ==
    /\ pages = <<>>
    /\ page = 1
    /\ results = <<>>
    /\ requested = <<>>
    /\ listing = "idle"

OrchIdle ==
    /\ links = <<>>
    /\ remotes = <<>>
    /\ cur = 1
    /\ phase = "idle"
    /\ inflight = {}
    /\ hist = [polled |-> <<>>, merged |-> {}]

ObjectIdle ==
    /\ mr = NewMR(None, None, None, NoneDesc)
    /\ commit = NoCommit
    /\ remote = NoRemote
    /\ pc = "idle"
    /\ last = NoCall

\* get_merge_request_chain on every list.
InitChain == ChainInit /\ PagesIdle /\ ObjectIdle /\ OrchIdle

NextChain == GetMergeRequestChain

SpecChain == InitChain /\ [][NextChain]_vars

\* The setters, save, update and refresh of one merge request, in any order.
InitContent == ContentInit /\ ChainIdle /\ PagesIdle /\ OrchIdle

SpecContent == InitContent /\ [][ContentNext]_vars

\* Every call on one merge request, created or not, with the remote changing.
InitLife == LifeInit /\ ChainIdle /\ PagesIdle /\ OrchIdle

SpecLife == InitLife /\ [][LifeNext]_vars

\* The same, with the two loops going on as long as they have not ended: a turn
\* ends in a sleep, after which the next turn begins.
FairSpecLife == SpecLife /\ WF_vars(MergeTurns) /\ WF_vars(WaitTurns)

\* _get_open_merge_requests on every listing the remote may hold.
InitPages == PagesInit /\ ChainIdle /\ ObjectIdle /\ OrchIdle

SpecPages == InitPages /\ [][PagesNext]_vars

\* The merge of a chain, with the remote changing.
InitOrch == OrchInit /\ ChainIdle /\ PagesIdle /\ ObjectIdle

SpecOrch == InitOrch /\ [][OrchNext]_vars

\* needs_update of every merge request on every commit.
InitNeedsUpdate == NeedsUpdateInit /\ ChainIdle /\ PagesIdle /\ OrchIdle

NextNeedsUpdate == NeedsUpdate

SpecNeedsUpdate == InitNeedsUpdate /\ [][NextNeedsUpdate]_vars

\* update with every combination of overrides, on a merge request saved or not.
InitUpdate == ContentInit /\ ChainIdle /\ PagesIdle /\ OrchIdle

SpecUpdate == InitUpdate /\ [][UpdateNext]_vars

\* needs_update, the setters and save on every existing merge request and commit.
InitReconcile == ReconcileInit /\ ChainIdle /\ PagesIdle /\ OrchIdle

SpecReconcile == InitReconcile /\ [][ReconcileNext]_vars

\* ------------------------------------------------------------ the claims

\* The position of merge request i in a chain (0 when it is not there).
PosIn(c, i) ==
    IF \E k \in DOMAIN c : c[k] = i
    THEN CHOOSE k \in DOMAIN c : c[k] = i
    ELSE 0

Occurrences(c, i) == Cardinality({k \in DOMAIN c : c[k] = i})

UniqueSources(ms) ==
    \A i, j \in DOMAIN ms : i # j => ms[i].source_branch # ms[j].source_branch

OneMRPerTarget(ms) ==
    \A i, j \in DOMAIN ms : i # j => ms[i].target_branch # ms[j].target_branch

\* j is the parent of i: i targets j's source branch.
IsParent(ms, j, i) == ms[i].target_branch = ms[j].source_branch

\* The merge requests reached from i by following target branches n times.
RECURSIVE AncestorsWithin(_, _, _)
AncestorsWithin(ms, i, n) ==
    IF n = 0 THEN {}
    ELSE LET ps == {j \in DOMAIN ms : IsParent(ms, j, i)}
         IN  ps \cup UNION {AncestorsWithin(ms, j, n - 1) : j \in ps}

Acyclic(ms) == \A i \in DOMAIN ms : i \notin AncestorsWithin(ms, i, Len(ms))

WellFormedChain(ms) == UniqueSources(ms) /\ OneMRPerTarget(ms) /\ Acyclic(ms)

IsRoot(ms, i) == \A j \in DOMAIN ms : ~IsParent(ms, j, i)

\* C1: on a list of merge requests with unique source branches, no cycle and at
\* most one merge request per target branch, get_merge_request_chain returns
\* every merge request of the list exactly once, each one that targets another
\* member's source branch immediately after that member, and the chains of the
\* roots in the order of the roots in the list.
C1_ChainOrder ==
    (called /\ WellFormedChain(mrs)) =>
        /\ chain.out = "ok"
        /\ Len(chain.ret) = Len(mrs)
        /\ \A i \in DOMAIN mrs : Occurrences(chain.ret, i) = 1
        /\ \A i, j \in DOMAIN mrs :
              (i # j /\ IsParent(mrs, j, i)) =>
                  PosIn(chain.ret, i) = PosIn(chain.ret, j) + 1
        /\ \A i, j \in DOMAIN mrs :
              (i < j /\ IsRoot(mrs, i) /\ IsRoot(mrs, j)) =>
                  PosIn(chain.ret, i) < PosIn(chain.ret, j)

\* C1's case: a well-formed list of two roots and a child that comes before its
\* parent in the list, and the chain built from it.
C1_Witness ==
    /\ called
    /\ WellFormedChain(mrs)
    /\ Cardinality({i \in DOMAIN mrs : IsRoot(mrs, i)}) = 2
    /\ \E i, j \in DOMAIN mrs : i < j /\ IsParent(mrs, j, i)
    /\ chain.out = "ok"

\* A save that found needs_save set issued exactly one request, an update.
OneUpdate(sent) == Len(sent) = 1 /\ sent[1].op = "update"

\* What C3's statement has in common with its amended form: a setter of the
\* target branch or of the title leaves needs_save as it is when given the
\* current value and sets it when given another; needs_save, once set, stays set
\* until a save; and a save that finds it set issues exactly one update request.
SettersAndSave ==
    /\ \A t \in Targets :
          SetTargetBranch(t) =>
              IF t = mr.target_branch
              THEN mr'.needs_save = mr.needs_save
              ELSE mr'.needs_save
    /\ \A t \in Titles :
          SetTitle(t) =>
              IF t = mr.title
              THEN mr'.needs_save = mr.needs_save
              ELSE mr'.needs_save
    /\ (mr.needs_save /\ ~mr'.needs_save) => \E st \in AllStatuses : Save(st)
    /\ \A st \in AllStatuses :
          (Save(st) /\ mr.needs_save) => OneUpdate(last'.sent)

\* C3 as stated, for the merge requests that have a description: every content
\* setter, set_desc too, leaves needs_save as it is when called with the current
\* value and sets it when called with a different one; the next save then issues
\* exactly one update request.
C3_AsStated ==
    [][/\ SettersAndSave
       /\ \A d \in Descriptions :
             (SetDesc(d) /\ mr.description # NoneDesc) =>
                 IF d = mr.description
                 THEN mr'.needs_save = mr.needs_save
                 ELSE mr'.needs_save]_vars

\* C3, amended: set_target_branch and set_title compare the values as they are;
\* set_desc compares the descriptions stripped of leading and trailing
\* whitespace, so it leaves needs_save (and the description) as it is when the new
\* description differs from the current one in such whitespace only, and sets it
\* otherwise; on a merge request without a description set_desc raises and
\* changes nothing.  The next save then issues exactly one update request.
C3_Setters ==
    [][/\ SettersAndSave
       /\ \A d \in Descriptions :
             SetDesc(d) =>
                 IF mr.description = NoneDesc
                 THEN last'.out = "AttributeError" /\ mr' = mr
                 ELSE IF strip(d) = strip(mr.description)
                 THEN mr' = mr
                 ELSE mr'.needs_save /\ mr'.description = d]_vars

\* C3's case: a save has found needs_save set and issued its one update, which
\* carried a description with whitespace to strip to the remote.
C3_Witness ==
    /\ last.op = "save"
    /\ last.out = "ok"
    /\ OneUpdate(last.sent)
    /\ remote.exists
    /\ remote.json.description = mr.description
    /\ strip(mr.description) # mr.description

C6_MergeRetries ==
    /\ [][/\ \A st \in AllStatuses :
                MergeTurn(st) =>
                    /\ last'.sent = <<Req("merge", mr.iid, NoData)>>
                    /\ mr.iid # None
                    /\ IF st = 200
                       THEN pc' = "idle" /\ last'.out = "ok"
                       ELSE pc' = "merge" /\ last'.out = "loop"
          /\ (pc = "merge" /\ pc' # "merge") => MergeTurn(200)]_vars
    /\ (pc = "merge" /\ remote.accepts) ~> (pc # "merge" \/ ~remote.accepts)

\* C6's case: the remote has answered a merge request with another status than
\* success, and the merge is in its loop, about to issue the request again.
C6_Witness ==
    /\ pc = "merge"
    /\ last.op = "merge"
    /\ last.sent # <<>>
    /\ last.out = "loop"

\* C7 as stated: no response to the refresh of a stability poll, and none to a
\* merge request, ends the loop with an error.
C7_AsStated ==
    (last.op \in {"wait_until_stable", "merge"} /\ last.sent # <<>>) =>
        last.out \in {"ok", "loop"}

\* The sha the remote reports is, and stays, the one wait_until_stable waits for.
Stable == remote.exists /\ remote.json.sha = commit.hexsha

\* C8: every turn of wait_until_stable refreshes before it decides, whatever sha
\* the object holds; it returns only when the sha that refresh obtained is the
\* commit's; and while the remote keeps reporting that sha, it ends.
C8_WaitUntilStable ==
    /\ [][/\ \A h \in Shas : WaitUntilStable(h) => pc' = "wait"
          /\ \A st \in AllStatuses :
                WaitTurn(st) =>
                    /\ last'.sent = <<Req("get", mr.iid, NoData)>>
                    /\ last'.out = "ok" =>
                          /\ ~raises_for_status(st)
                          /\ mr'.sha = remote.json.sha
                          /\ mr'.sha = commit.hexsha
          /\ (pc = "wait" /\ pc' # "wait" /\ last'.out = "ok") =>
                mr'.sha = commit.hexsha]_vars
    /\ (pc = "wait" /\ Stable) ~> (pc # "wait" \/ ~Stable)

\* C8's case: wait_until_stable has returned, after a refresh, with the commit's
\* sha.
C8_Witness ==
    /\ pc = "idle"
    /\ last.op = "wait_until_stable"
    /\ last.out = "ok"
    /\ last.sent # <<>>
    /\ mr.sha = commit.hexsha

\* C9: merge and delete of a merge request without an iid raise before any
\* request is issued, to the remote or to push a branch deletion, and leave the
\* merge request (and the remote) as it was.
C9_IidPrecondition ==
    [][(mr.iid = None
            /\ (Merge \/ \E d \in BOOLEAN, st \in AllStatuses : Delete(d, st))) =>
        /\ last'.out = "ValueError"
        /\ last'.sent = <<>>
        /\ mr' = mr
        /\ remote' = remote
        /\ pc' = "idle"]_vars

\* C9's case: merge or delete was called on a merge request without an iid.
C9_Witness ==
    /\ mr.iid = None
    /\ last.op \in {"merge", "delete"}
    /\ last.out = "ValueError"

\* C10 as stated: no call but create issues a request to the remote for a merge
\* request whose iid is absent.
C10_AsStated ==
    \A k \in DOMAIN last.sent :
        last.sent[k].op \notin {"create", "push"} => last.sent[k].iid # None

\* C11: create issues exactly one request, a create, and none again; on a success
\* response it takes iid and web_url from the response; on any other response it
\* ends the process with an error and leaves the merge request as it was, iid
\* and web_url absent when they were.
C11_Create ==
    [][\A st \in AllStatuses, b \in Bodies :
          Create(st, b) =>
              /\ last'.sent = <<Req("create", None, Data(mr))>>
              /\ IF ~raises_for_status(st)
                 THEN /\ last'.out = "ok"
                      /\ pc' = "idle"
                      /\ mr'.iid = remote'.json.iid
                      /\ mr'.web_url = remote'.json.web_url
                      /\ mr'.iid # None
                 ELSE /\ last'.out \in {"SystemExit", "JSONDecodeError"}
                      /\ pc' = "exit"
                      /\ mr' = mr
                      /\ remote' = remote]_vars

\* C11's case: the create of a merge request that was never created got an error
\* response: the process has ended and the merge request has no iid and no url.
C11_Witness ==
    /\ last.op = "create"
    /\ last.out = "SystemExit"
    /\ pc = "exit"
    /\ mr.iid = None
    /\ mr.web_url = None
    /\ ~remote.exists

\* A malformed dependency graph: a cycle among the merge requests, or several
\* merge requests that target the same branch.
Malformed(ms) == ~Acyclic(ms) \/ ~OneMRPerTarget(ms)

\* C12 as stated, for the lists with unique source branches: on a malformed
\* dependency graph get_merge_request_chain fails with an error; it returns no
\* chain.
C12_AsStated ==
    (called /\ UniqueSources(mrs) /\ Malformed(mrs)) => chain.out # "ok"

\* C13: needs_save is cleared by a save that succeeded and by nothing else.  A
\* save that returns leaves needs_save false, and a save right after it issues
\* no request and returns False; a save whose update request fails raises and
\* leaves needs_save set, and every save that finds it set issues the update.
C13_NeedsSave ==
    [][/\ (mr.needs_save /\ ~mr'.needs_save) =>
              /\ \E st \in AllStatuses : Save(st)
              /\ last'.out = "ok"
       /\ \A st \in AllStatuses :
             Save(st) =>
                 /\ last'.out = "ok" => ~mr'.needs_save
                 /\ (last.op = "save" /\ last.out = "ok") =>
                        /\ last'.sent = <<>>
                        /\ last'.ret = "False"
                        /\ last'.out = "ok"
                 /\ ~mr.needs_save =>
                        /\ last'.sent = <<>>
                        /\ last'.ret = "False"
                 /\ mr.needs_save =>
                        /\ OneUpdate(last'.sent)
                        /\ IF raises_for_status(st)
                           THEN last'.out = "HTTPError" /\ mr'.needs_save
                           ELSE last'.ret = "True" /\ ~mr'.needs_save]_vars

\* C13's case: the update request of a save has failed, and needs_save is still
\* set on a merge request the remote holds.
C13_Witness ==
    /\ last.op = "save"
    /\ last.out = "HTTPError"
    /\ OneUpdate(last.sent)
    /\ mr.needs_save
    /\ remote.exists
    /\ mr.iid = remote.json.iid

\* The listing has ended the process: by sys.exit(1), or by an exception of the
\* session that neither the function nor its callers get_merge_request and
\* get_all_merge_requests catch, with which Python exits with status 1.
Aborted == listing \in {"exit", "raised"}

\* C14: a failed request of a page ends the listing and the process: sys.exit(1)
\* after an HTTPError or an InvalidHeader, the exception itself otherwise; no
\* page is requested after it, and the function returns (only ever after a
\* request that succeeded, and then) without any request having failed.
C14_ListingAborts ==
    [][/\ \A resp \in PageResponses :
             (GetOpenMergeRequestsTurn(resp) /\ resp # "ok") =>
                 /\ Aborted'
                 /\ resp \in {"HTTPError", "InvalidHeader"} => listing' = "exit"
                 /\ results' = results
       /\ Aborted => (requested' = requested /\ listing' = listing)
       /\ (listing # "returned" /\ listing' = "returned") =>
             GetOpenMergeRequestsTurn("ok")]_vars

\* C14's case: two pages were fetched, the request of the third failed, and the
\* process has exited.
C14_Witness ==
    /\ listing = "exit"
    /\ Len(results) = 2
    /\ Len(requested) = 3

\* The pushes among the requests of a call.
Pushes(sent) == {k \in DOMAIN sent : sent[k].op = "push"}

\* C15: delete pushes the deletion of the source branch exactly when
\* delete_source_branch is set and the remote has answered the deletion of the
\* merge request with a success; the push is then the one request after the
\* delete request and names the merge request's source branch.  After a failed
\* deletion, and with delete_source_branch false, there is no push.
C15_DeletePush ==
    [][\A d \in BOOLEAN, st \in AllStatuses :
          Delete(d, st) =>
              /\ Pushes(last'.sent) # {} <=>
                    (d /\ mr.iid # None /\ ~raises_for_status(st))
              /\ Pushes(last'.sent) # {} =>
                    /\ last'.out = "ok"
                    /\ Len(last'.sent) = 2
                    /\ last'.sent[1] = Req("delete", mr.iid, NoData)
                    /\ Pushes(last'.sent) = {2}
                    /\ last'.sent[2].data.source_branch = mr.source_branch
                    /\ remote.exists /\ ~remote'.exists
              /\ raises_for_status(st) =>
                    /\ last'.out = "HTTPError"
                    /\ remote' = remote]_vars

\* C15's case: a delete with delete_source_branch set has deleted the merge
\* request and pushed the deletion of its branch.
C15_Witness ==
    /\ last.op = "delete"
    /\ last.out = "ok"
    /\ Pushes(last.sent) = {2}
    /\ ~remote.exists

\* The value update sends, and keeps, for a field: the override when one is
\* given, the current value otherwise.
Merged(ov, m) ==
    [source_branch |->
        IF ov.source_branch # None THEN ov.source_branch ELSE m.source_branch,
     target_branch |->
        IF ov.target_branch # None THEN ov.target_branch ELSE m.target_branch,
     title |-> IF ov.title # None THEN ov.title ELSE m.title,
     description |->
        IF ov.description # NoneDesc THEN ov.description ELSE m.description]

\* C16: update issues one request whose data holds the four fields, each with
\* its override when one is given and with the current value otherwise; the
\* object holds the same four values afterwards; on success iid and web_url are
\* those of the response; needs_save is as it was.
C16_Update ==
    [][\A ov \in UpdateOverrides, st \in AllStatuses :
          Update(ov, st) =>
              /\ last'.sent = <<Req("update", mr.iid, Merged(ov, mr))>>
              /\ DOMAIN last'.sent[1].data =
                    {"source_branch", "target_branch", "title", "description"}
              /\ Data(mr') = Merged(ov, mr)
              /\ mr'.needs_save = mr.needs_save
              /\ IF raises_for_status(st)
                 THEN /\ last'.out = "HTTPError"
                      /\ mr'.iid = mr.iid
                      /\ mr'.web_url = mr.web_url
                 ELSE /\ last'.out = "ok"
                      /\ mr'.iid = remote'.json.iid
                      /\ mr'.web_url = remote'.json.web_url]_vars

\* C16's case: an update with an override of the source branch and none of the
\* title has succeeded on a merge request whose title was set and not saved: the
\* title went to the remote with it, and needs_save is still set.
C16_Witness ==
    /\ last.op = "update"
    /\ last.out = "ok"
    /\ mr.source_branch = FeatNames[3]
    /\ mr.needs_save
    /\ last.sent[1].data.title = mr.title
    /\ remote.json.title = mr.title
    /\ mr.iid = remote.json.iid

\* C17 as stated, where the save has issued no request (the remote is then as it
\* was when the merge request was built from it, so needs_update on the merge
\* request as it was is needs_update on the remote's values): when the setters
\* and save have issued no update for a merge request that has a description,
\* needs_update(commit) was false.
C17_AsStated ==
    (pc = "done" /\ last.op = "save" /\ last.sent = <<>>) =>
        ~needs_update(HydratedMR(remote.json), commit)

\* C18: on a list of merge requests with pairwise distinct source branches,
\* whatever their target branches, get_merge_request_chain returns (the
\* recursion ends), and what it returns holds merge requests of the list only,
\* none of them twice.
C18_ChainTerminates ==
    (called /\ UniqueSources(mrs)) =>
        /\ chain.out = "ok"
        /\ \A k \in DOMAIN chain.ret : chain.ret[k] \in DOMAIN mrs
        /\ \A i \in DOMAIN mrs : Occurrences(chain.ret, i) <= 1

\* C18's case: a list with distinct source branches that holds a cycle and a
\* root beside it, and the chain returned for it, the root without the cycle.
C18_Witness ==
    /\ called
    /\ UniqueSources(mrs)
    /\ ~Acyclic(mrs)
    /\ chain.out = "ok"
    /\ Len(chain.ret) = 1
    /\ Len(mrs) = 3

\* The merge request is one the remote holds.
Created == remote.exists /\ mr.iid = remote.json.iid

\* C19 as stated: after any sequence of set_target_branch, set_title, set_desc,
\* save, update and refresh on a created merge request, the remote calls
\* succeeding or failing, needs_save false means that the merge request's
\* target branch, title and description are those the remote stores.
C19_AsStated ==
    (Created /\ ~mr.needs_save) =>
        /\ mr.target_branch = remote.json.target_branch
        /\ mr.title = remote.json.title
        /\ mr.description = remote.json.description

\* The first empty page of a listing.
FirstEmptyPage(ps) == CHOOSE p \in 1..(Len(ps) + 1) :
    /\ PageBody(ps, p) = <<>>
    /\ \A q \in 1..(p - 1) : PageBody(ps, q) # <<>>

RECURSIVE Concat(_)
Concat(ss) == IF ss = <<>> THEN <<>> ELSE Head(ss) \o Concat(Tail(ss))

\* C5: _get_open_merge_requests requests the pages 1, 2, 3, ... in this order,
\* none after the first empty one, at which it stops; when every request
\* succeeded it returns the pages before that one, in order, whose
\* concatenation is the list of the merge requests on them.
C5_Pagination ==
    /\ \A k \in DOMAIN requested :
          /\ requested[k].page = k
          /\ k <= FirstEmptyPage(pages)
    /\ listing = "returned" =>
          /\ Len(requested) = FirstEmptyPage(pages)
          /\ results = [k \in 1..(FirstEmptyPage(pages) - 1) |-> pages[k]]
          /\ Concat(results) =
                Concat(SubSeq(pages, 1, FirstEmptyPage(pages) - 1))

\* C5's case: a listing of two pages with merge requests, an empty page and a
\* page with merge requests after it, and the function has returned.
C5_Witness ==
    /\ listing = "returned"
    /\ Len(results) = 2
    /\ \E p \in DOMAIN pages : p > Len(requested) /\ pages[p] # <<>>

\* C2: in the merge of a chain, the merge request of a link is issued only after
\* the link's poll has seen the remote report the commit's sha and after the
\* remote has accepted the merge of every link before it, and no two requests
\* are awaiting their response at the same time.
C2_MergeOrder ==
    /\ \A x \in inflight :
          x.req.op = "merge" =>
              /\ hist.polled[x.link] = TheHexsha
              /\ \A j \in 1..(x.link - 1) : j \in hist.merged
    /\ Cardinality(inflight) <= 1

\* C2's case: the first link is merged and the merge request of the second, whose
\* remote sha was polled, is issued.
C2_Witness ==
    /\ 1 \in hist.merged
    /\ \E x \in inflight : x.link = 2 /\ x.req.op = "merge"

====
